---- MODULE Spec2Model ----
(***************************************************************************)
(* Flight Crash Dashboard (src/app.py): the page script as a state machine. *)
(* One run of the script is one step: load_data, ensure_geocoded, the      *)
(* sidebar selections, the filters, the fatality histogram and the geocode *)
(* button handler.  Data frames are sequences of records plus the set of   *)
(* column names they carry; a missing cell (NaN / NaT / None) is a value   *)
(* with isna = TRUE.  Text that the code transforms character by character *)
(* (damage_level, the fatalities cell) is a sequence of one-character      *)
(* strings.                                                                *)
(***************************************************************************)
EXTENDS Integers, Sequences, FiniteSets, TLC

VARIABLES source, geopyInstalled, cacheFile, df, years, damage_sel,
          operator_sel, filtered, fr_counts, lookups, messages, status

vars == <<source, geopyInstalled, cacheFile, df, years, damage_sel,
          operator_sel, filtered, fr_counts, lookups, messages, status>>

(* ------------------------------ bounds -------------------------------- *)

\* Largest number of rows of the source CSV.
MaxRows == 2

(* ------------------------- missing values ----------------------------- *)

\* A present cell holding v.
Val(v) == [isna |-> FALSE, v |-> v]

\* NaN in a text column.
NaText == [isna |-> TRUE, v |-> <<>>]

\* NaN in a column of plain names (operator, location).
NaName == [isna |-> TRUE, v |-> ""]

\* NaN in a numeric column.
NaN == [isna |-> TRUE, v |-> 0]

\* NaT: the date that failed to parse.
NaT == [isna |-> TRUE, v |-> [d |-> 0, m |-> 0, y |-> 0]]

(* ------------------------------ text ---------------------------------- *)

\* Lower-case / upper-case letter pairs of the modelled alphabet.
LetterPairs == { <<"a", "A">>, <<"b", "B">>, <<"k", "K">>, <<"n", "N">>,
                 <<"o", "O">>, <<"s", "S">>, <<"u", "U">>, <<"w", "W">>,
                 <<"x", "X">> }

\* str.upper on one character: characters without case are kept.
Upper(c) == IF \E p \in LetterPairs : p[1] = c
            THEN (CHOOSE p \in LetterPairs : p[1] = c)[2]
            ELSE c

\* str.lower on one character.
Lower(c) == IF \E p \in LetterPairs : p[2] = c
            THEN (CHOOSE p \in LetterPairs : p[2] = c)[1]
            ELSE c

\* str.capitalize: first character upper-cased, the rest lower-cased.
Capitalize(s) == [i \in 1..Len(s) |-> IF i = 1 THEN Upper(s[i]) ELSE Lower(s[i])]

\* Series.astype(str) on one cell: a missing cell becomes the text "nan"
\* (object columns, as pandas 1.x and 2.x convert them).
AsTypeStr(cell) == IF cell.isna THEN Val(<<"n", "a", "n">>) ELSE cell

\* Series.str.capitalize on one cell: missing stays missing.
StrCapitalize(cell) == IF cell.isna THEN cell ELSE Val(Capitalize(cell.v))

\* Series.fillna on one cell.
FillNa(cell, dflt) == IF cell.isna THEN Val(dflt) ELSE cell

\* The text "Unknown" of the damage_level default.
UnknownText == <<"U", "n", "k", "n", "o", "w", "n">>

(* ----------------------------- numbers -------------------------------- *)

DigitChars == <<"0", "1", "2", "3", "4", "5", "6", "7", "8", "9">>

IsDigit(c) == \E i \in 1..10 : DigitChars[i] = c

DigitVal(c) == (CHOOSE i \in 1..10 : DigitChars[i] = c) - 1

RECURSIVE ParseNat(_)
\* The value of a non-empty sequence of digits.
ParseNat(s) == IF Len(s) = 0 THEN 0
               ELSE 10 * ParseNat(SubSeq(s, 1, Len(s) - 1)) + DigitVal(s[Len(s)])

IsNatText(s) == Len(s) > 0 /\ \A i \in 1..Len(s) : IsDigit(s[i])

\* pd.to_numeric(errors="coerce") on one cell: an optionally signed integer
\* text is its value, anything else (and a missing cell) is NaN.
ToNumeric(cell) ==
    IF cell.isna THEN NaN
    ELSE IF IsNatText(cell.v) THEN Val(ParseNat(cell.v))
    ELSE IF Len(cell.v) > 1 /\ cell.v[1] = "-" /\ IsNatText(Tail(cell.v))
         THEN Val(0 - ParseNat(Tail(cell.v)))
    ELSE NaN

(* ------------------------------ dates --------------------------------- *)

IsLeap(y) == y % 4 = 0 /\ (y % 100 # 0 \/ y % 400 = 0)

DaysInMonth(m, y) == IF m = 2 THEN (IF IsLeap(y) THEN 29 ELSE 28)
                     ELSE IF m \in {4, 6, 9, 11} THEN 30 ELSE 31

\* pd.to_datetime(errors="coerce", dayfirst=True) on one cell holding
\* day/month/year text: a day or month out of range gives NaT, silently.
ToDatetime(cell) ==
    IF cell.isna THEN NaT
    ELSE IF cell.v.m \in 1..12 /\ cell.v.d \in 1..DaysInMonth(cell.v.m, cell.v.y)
         THEN cell
    ELSE NaT

\* Series.dt.year on one cell.
DtYear(date) == IF date.isna THEN NaN ELSE Val(date.v.y)

(* ---------------------------- data frames ----------------------------- *)

\* A frame with no column and no row.
EmptyFrame == [cols |-> {}, rows |-> <<>>]

\* The fields of a frame row whose column the frame does not carry.
Blank == [latitude |-> NaN, longitude |-> NaN, fatal_range |-> NaName]

\* df["operator"] = <series>: the series is aligned on the frame's index, and
\* an index label the series lacks gets NaN.
AlignAssign(series, idx) == IF idx \in DOMAIN series THEN series[idx] ELSE NaName

\* df.get("operator", pd.Series("Unknown")).fillna("Unknown"): the column with
\* its missing cells filled, or a one-element series at index 0.
OperatorSeries(src) ==
    IF "operator" \in src.cols
    THEN [i \in 0..(Len(src.rows) - 1) |-> FillNa(src.rows[i + 1].operator, "Unknown")]
    ELSE [i \in {0} |-> FillNa(Val("Unknown"), "Unknown")]

\* The damage_level column of load_data, for one raw row.
DamageLevel(src, raw) ==
    IF "damage_level" \in src.cols
    THEN FillNa(StrCapitalize(AsTypeStr(raw.damage_level)), UnknownText)
    ELSE Val(UnknownText)

\* The fatalities column of load_data, for one raw row (the column is present).
Fatalities(raw) == FillNa(ToNumeric(raw.fatalities), 0)

\* load_data fails: pd.to_numeric(0) is a scalar, which has no fillna.
LoadFails(src) == "fatalities" \notin src.cols

\* load_data on a source that has a fatalities column.
LoadData(src) ==
    [cols |-> src.cols \cup {"year", "damage_level", "operator", "fatalities"},
     rows |-> [i \in 1..Len(src.rows) |->
        LET raw == src.rows[i]
            date == ToDatetime(raw.date)
        IN  [row          |-> i - 1,
             date         |-> date,
             year         |-> DtYear(date),
             damage_level |-> DamageLevel(src, raw),
             operator     |-> AlignAssign(OperatorSeries(src), i - 1),
             fatalities   |-> Fatalities(raw),
             location     |-> raw.location,
             latitude     |-> Blank.latitude,
             longitude    |-> Blank.longitude,
             fatal_range  |-> Blank.fatal_range]]]

(* --------------------------- geocode cache ---------------------------- *)

\* No cache file on disk.
NoFile == [exists |-> FALSE, cols |-> {}, entries |-> {}]

\* pd.read_csv(GEOCODE_CACHE) raises EmptyDataError: the file was written
\* from a frame without columns, so it holds a line end and nothing to parse.
CacheUnreadable(cache) == cache.exists /\ cache.cols = {}

\* The cache entry of a location, as the left join finds it.
CacheEntry(cache, loc) ==
    IF \E e \in cache.entries : e.location = loc
    THEN CHOOSE e \in cache.entries : e.location = loc
    ELSE [location |-> loc, latitude |-> NaN, longitude |-> NaN]

\* ensure_geocoded, when the cache file (if any) can be read.
EnsureGeocoded(frame, cache) ==
    IF {"latitude", "longitude"} \subseteq frame.cols THEN frame
    ELSE IF cache.exists /\ "location" \in frame.cols /\ "location" \in cache.cols
    THEN [cols |-> frame.cols \cup cache.cols,
          rows |-> [i \in 1..Len(frame.rows) |->
             LET r == frame.rows[i]
                 e == IF r.location.isna
                      THEN [latitude |-> NaN, longitude |-> NaN]
                      ELSE CacheEntry(cache, r.location.v)
             IN  [r EXCEPT !.latitude = e.latitude, !.longitude = e.longitude]]]
    ELSE frame

(* ------------------------------ sidebar ------------------------------- *)

\* df[col].unique(), missing cells included.
Unique(frame, col) == { frame.rows[i][col] : i \in 1..Len(frame.rows) }

\* df[col].dropna().unique(), as the set of the values.
UniqueValues(frame, col) == { c.v : c \in { x \in Unique(frame, col) : ~x.isna } }

\* The options (and the default) of the year multiselect.
YearOptions(frame) == UniqueValues(frame, "year")

\* The options (and the default) of the damage-level multiselect.
DamageOptions(frame) == UniqueValues(frame, "damage_level")

\* Number of operators the operator multiselect offers.
OperatorLimit == 50

\* sorted(...) of the operators raises TypeError: a float NaN is compared
\* with a str.
SidebarFails(frame) ==
    /\ \E c \in Unique(frame, "operator") : c.isna
    /\ \E c \in Unique(frame, "operator") : ~c.isna

\* The options of the operator multiselect: the first OperatorLimit of the
\* sorted operators; every operator when there are no more than that.
OperatorOptions(frame) ==
    LET all == UniqueValues(frame, "operator")
    IN  IF Cardinality(all) <= OperatorLimit THEN all
        ELSE CHOOSE S \in SUBSET all : Cardinality(S) = OperatorLimit

(* ------------------------------ filters ------------------------------- *)

\* Series.isin on one cell: a missing cell is in no selection.
IsIn(cell, sel) == ~cell.isna /\ cell.v \in sel

\* Restrict gone wrong: the rows kept come out last row first, as a filter
\* followed by a descending sort would leave them.
RestrictDescending(frame, col, sel) ==
    LET Keep(r) == IsIn(r[col], sel)
        kept == SelectSeq(frame.rows, Keep)
    IN  [frame EXCEPT !.rows = [i \in 1..Len(kept) |-> kept[Len(kept) + 1 - i]]]

\* frame[frame[col].isin(sel)]: the rows kept, in their order, index kept.
Restrict(frame, col, sel) ==
    LET Keep(r) == IsIn(r[col], sel)
    IN  [frame EXCEPT !.rows = SelectSeq(frame.rows, Keep)]

\* The three "if <selection>: filtered = filtered[...]" statements, on a
\* copy of df.
ApplyFilters(frame, ys, ds, os) ==
    LET f1 == IF ys # {} THEN Restrict(frame, "year", ys) ELSE frame
        f2 == IF ds # {} THEN Restrict(f1, "damage_level", ds) ELSE f1
    IN  IF os # {} THEN Restrict(f2, "operator", os) ELSE f2

(* ----------------------------- histogram ------------------------------ *)

Bins == <<-1, 0, 1, 5, 10, 20, 50, 1000>>

Labels == <<"0", "1-5", "6-10", "11-20", "21-50", "51-100", "100+">>

\* The i-th interval of pd.cut(bins, right=True, include_lowest=True).
InBin(v, i) == (Bins[i] < v /\ v <= Bins[i + 1]) \/ (i = 1 /\ v = Bins[1])

\* pd.cut on one cell: the label of its interval, NaN outside every interval.
Cut(cell) ==
    IF ~cell.isna /\ \E i \in 1..Len(Labels) : InBin(cell.v, i)
    THEN Val(Labels[CHOOSE i \in 1..Len(Labels) : InBin(cell.v, i)])
    ELSE NaName

\* filtered["fatal_range"] = pd.cut(filtered["fatalities"], ...).
AddFatalRange(frame) ==
    [cols |-> frame.cols \cup {"fatal_range"},
     rows |-> [i \in 1..Len(frame.rows) |->
                  [frame.rows[i] EXCEPT !.fatal_range = Cut(frame.rows[i].fatalities)]]]

\* filtered["fatal_range"].value_counts().reindex(labels).
FrCounts(frame) ==
    [l \in { Labels[i] : i \in 1..Len(Labels) } |->
        Cardinality({ i \in 1..Len(frame.rows) : frame.rows[i].fatal_range = Val(l) })]

(* ------------------------------ geocoding ----------------------------- *)

\* What the geocoding service holds for each place.
Gazetteer == [Paris |-> [latitude |-> 49, longitude |-> 2],
              Lima  |-> [latitude |-> -12, longitude |-> -77],
              Oslo  |-> [latitude |-> 60, longitude |-> 11]]

NoResult == [latitude |-> NaN, longitude |-> NaN]

\* The condition under which the Map tab shows the geocode button.
ButtonShown(frame) ==
    \/ "latitude" \notin frame.cols
    \/ "longitude" \notin frame.cols
    \/ \A i \in 1..Len(frame.rows) : frame.rows[i].latitude.isna

\* filtered["location"].dropna().unique().
UniqueLocs(frame) == UniqueValues(frame, "location")

\* The locations geocode_locations passes to the service: every one it is
\* given but the empty text, when geopy can be imported.
LookedUp(locs, installed) == IF installed THEN { l \in locs : l # "" } ELSE {}

\* geocode_locations: the results, one per location; none without geopy.
\* answer[l] is what the service does for l: "found", "none" or "error".
GeocodeLocations(locs, installed, answer) ==
    IF ~installed THEN {}
    ELSE { [location  |-> l,
            latitude  |-> IF l # "" /\ answer[l] = "found"
                          THEN Val(Gazetteer[l].latitude) ELSE NaN,
            longitude |-> IF l # "" /\ answer[l] = "found"
                          THEN Val(Gazetteer[l].longitude) ELSE NaN] : l \in locs }

\* cache_df.to_csv(GEOCODE_CACHE): the file is replaced by the results; a
\* frame built from no row has no column.
WriteCache(results) ==
    [exists  |-> TRUE,
     cols    |-> IF results = {} THEN {} ELSE {"location", "latitude", "longitude"},
     entries |-> results]

(* --------------------------- the page script -------------------------- *)

\* The state a run of the script leaves when it stops on an exception.
Crashed(why, frame, cache) ==
    [df |-> frame, filtered |-> EmptyFrame, fr_counts |-> FrCounts(EmptyFrame),
     cacheFile |-> cache, lookups |-> {}, messages |-> {"exception"},
     status |-> why]

\* What the Map tab tells the user.
MapMessages(shown, run, installed) ==
    (IF shown THEN {"info: no coordinates"} ELSE {"map"})
    \cup (IF run /\ ~installed THEN {"error: geopy not installed"} ELSE {})
    \cup (IF run THEN {"success: geocoding finished"} ELSE {})

\* One run of the script, top to bottom: the selections ys, ds, os are the
\* widget values, clicked tells whether the geocode button was pressed, and
\* answer is what the geocoding service does for each location.
Script(src, installed, cache, ys, ds, os, clicked, answer) ==
    IF LoadFails(src) THEN Crashed("crash_load", EmptyFrame, cache)
    ELSE IF CacheUnreadable(cache) THEN Crashed("crash_cache", LoadData(src), cache)
    ELSE LET d == EnsureGeocoded(LoadData(src), cache) IN
    IF SidebarFails(d) THEN Crashed("crash_sidebar", d, cache)
    ELSE LET view    == AddFatalRange(ApplyFilters(d, ys, ds, os))
             df_geo  == EnsureGeocoded(view, cache)
             shown   == ButtonShown(df_geo)
             run     == shown /\ clicked
             locs    == UniqueLocs(view)
             results == GeocodeLocations(locs, installed, answer)
         IN  [df |-> d, filtered |-> view, fr_counts |-> FrCounts(view),
              cacheFile |-> IF run THEN WriteCache(results) ELSE cache,
              lookups |-> IF run THEN LookedUp(locs, installed) ELSE {},
              messages |-> MapMessages(shown, run, installed),
              status |-> "ok"]

\* The variables after a run of the script.
Ran(r, ys, ds, os) ==
    /\ df' = r.df
    /\ filtered' = r.filtered
    /\ fr_counts' = r.fr_counts
    /\ cacheFile' = r.cacheFile
    /\ lookups' = r.lookups
    /\ messages' = r.messages
    /\ status' = r.status
    /\ years' = ys
    /\ damage_sel' = ds
    /\ operator_sel' = os
    /\ UNCHANGED <<source, geopyInstalled>>

(* ------------------------------- inputs ------------------------------- *)

Text(s) == Val(s)

Day(d, m, y) == Val([d |-> d, m |-> m, y |-> y])

\* The rows a source file is made of.
RawRows ==
    { [date |-> Day(1, 3, 2020), damage_level |-> Text(<<"s", "u", "b">>),
       operator |-> Val("Acme"), fatalities |-> Text(<<"5">>),
       location |-> Val("Paris")],
      [date |-> Day(4, 7, 2021), damage_level |-> Text(<<"n", "O">>),
       operator |-> Val("Beta"), fatalities |-> Text(<<"1", "0", "0", "1">>),
       location |-> Val("Lima")],
      [date |-> NaT, damage_level |-> NaText,
       operator |-> NaName, fatalities |-> NaText,
       location |-> NaName],
      [date |-> Day(31, 13, 2020), damage_level |-> Text(<<"s", "U", "b">>),
       operator |-> Val("Acme"), fatalities |-> Text(<<"x", "7">>),
       location |-> Val("Lima")],
      [date |-> Day(29, 2, 2020), damage_level |-> Text(<<"N", "o">>),
       operator |-> Val("Beta"), fatalities |-> Text(<<"-", "3">>),
       location |-> Val("Paris")] }

\* The columns every source file has (none has latitude or longitude), and
\* those it may lack.
BaseCols == {"date", "aircraft_type", "location"}

ColumnSets == { BaseCols \cup {"damage_level", "operator", "fatalities"},
                BaseCols \cup {"damage_level", "fatalities"},
                BaseCols \cup {"operator", "fatalities"},
                BaseCols \cup {"damage_level", "operator"} }

Sources == { [cols |-> c, rows |-> r] :
             c \in ColumnSets,
             r \in UNION { [1..n -> RawRows] : n \in 0..MaxRows } }

\* The cache files a session may start with.
Caches ==
    { NoFile,
      WriteCache({ [location |-> "Paris"] @@ NoResult }),
      WriteCache({ [location |-> "Paris"] @@ [latitude |-> Val(49), longitude |-> Val(2)],
                   [location |-> "Oslo"] @@ NoResult }) }

Answers == {"found", "none", "error"}

NoAnswer == [l \in {} |-> "none"]

(* --------------------------- initial state ---------------------------- *)

\* The first run of the script: years and damage levels default to every
\* option, operators to none.
Init ==
    \E src \in Sources, inst \in BOOLEAN, cache \in Caches :
        LET d  == IF LoadFails(src) \/ CacheUnreadable(cache) THEN EmptyFrame
                  ELSE EnsureGeocoded(LoadData(src), cache)
            ok == ~LoadFails(src) /\ ~CacheUnreadable(cache)
            ys == IF ok THEN YearOptions(d) ELSE {}
            ds == IF ok THEN DamageOptions(d) ELSE {}
            r  == Script(src, inst, cache, ys, ds, {}, FALSE, NoAnswer)
        IN  /\ source = src
            /\ geopyInstalled = inst
            /\ df = r.df
            /\ filtered = r.filtered
            /\ fr_counts = r.fr_counts
            /\ cacheFile = r.cacheFile
            /\ lookups = r.lookups
            /\ messages = r.messages
            /\ status = r.status
            /\ years = ys
            /\ damage_sel = ds
            /\ operator_sel = {}

(* ------------------------------ actions ------------------------------- *)

Toggle(sel, x) == IF x \in sel THEN sel \ {x} ELSE sel \cup {x}

\* The sidebar was drawn down to the year and damage-level widgets.
SidebarDrawn == status \in {"ok", "crash_sidebar"}

\* The user adds or removes one year; the script runs again.
ToggleYear ==
    /\ SidebarDrawn
    /\ \E y \in YearOptions(df) :
          LET ys == Toggle(years, y)
          IN  LET r == Script(source, geopyInstalled, cacheFile, ys, damage_sel,
                         operator_sel, FALSE, NoAnswer)
                  IN  Ran(r, ys, damage_sel, operator_sel)

\* The user adds or removes one damage level; the script runs again.
ToggleDamage ==
    /\ SidebarDrawn
    /\ \E x \in DamageOptions(df) :
          LET ds == Toggle(damage_sel, x)
          IN  LET r == Script(source, geopyInstalled, cacheFile, years, ds,
                         operator_sel, FALSE, NoAnswer)
                  IN  Ran(r, years, ds, operator_sel)

\* The user adds or removes one operator; the script runs again.
ToggleOperator ==
    /\ status = "ok"
    /\ \E o \in OperatorOptions(df) :
          LET os == Toggle(operator_sel, o)
          IN  LET r == Script(source, geopyInstalled, cacheFile, years, damage_sel,
                         os, FALSE, NoAnswer)
                  IN  Ran(r, years, damage_sel, os)

\* The user presses the geocode button the last run drew; the script runs
\* again and, where it draws the button again, runs the handler.
ClickGeocode ==
    /\ status = "ok"
    /\ ButtonShown(filtered)
    /\ \E answer \in [UniqueLocs(filtered) -> Answers] :
          LET r == Script(source, geopyInstalled, cacheFile, years, damage_sel,
                     operator_sel, TRUE, answer)
              IN  Ran(r, years, damage_sel, operator_sel)

\* The user reloads the page: the script runs again with the same widgets.
Reload ==
    LET r == Script(source, geopyInstalled, cacheFile, years, damage_sel,
               operator_sel, FALSE, NoAnswer)
        IN  Ran(r, years, damage_sel, operator_sel)

Next == ToggleYear \/ ToggleDamage \/ ToggleOperator \/ ClickGeocode \/ Reload

Spec == Init /\ [][Next]_vars

\* The sessions made of filter-selection changes only.
NextFilter == ToggleYear \/ ToggleDamage \/ ToggleOperator

SpecFilter == Init /\ [][NextFilter]_vars

(* ====================================================================== *)
(*                               Properties                               *)
(* ====================================================================== *)

\* The script ran to its end.
Ok == status = "ok"

\* load_data returned a frame (one row per source row, in source order).
Loaded == status # "crash_load"

Rows(frame) == 1..Len(frame.rows)

RECURSIVE SumOver(_, _)
\* The sum of f over the finite set S of its arguments.
SumOver(f, S) == IF S = {} THEN 0
                 ELSE LET x == CHOOSE y \in S : TRUE
                      IN  f[x] + SumOver(f, S \ {x})

\* C1: for every damage-level and operator selection, filtering the Dataset
\* with an empty year selection returns the same records as filtering it
\* with every year that occurs in it.
C1_EmptyYearsIsAllYears ==
    Ok => \A ds \in SUBSET DamageOptions(df), os \in SUBSET OperatorOptions(df) :
            ApplyFilters(df, {}, ds, os).rows
              = ApplyFilters(df, YearOptions(df), ds, os).rows

\* C2: after load_data every record's fatalities is a number >= 0, and it is
\* 0 where the source cell was missing or not numeric.
C2_FatalitiesNonNegative ==
    Loaded => \A i \in Rows(df) :
                /\ ~df.rows[i].fatalities.isna
                /\ df.rows[i].fatalities.v >= 0
                /\ ToNumeric(source.rows[i].fatalities).isna
                     => df.rows[i].fatalities.v = 0

\* C3: after load_data every record's damage_level is capitalized (first
\* letter upper, rest lower), and it is "Unknown" where the source has no
\* damage_level column or the row's cell is empty.
C3_DamageLevelNormalized ==
    Loaded => \A i \in Rows(df) :
                /\ ~df.rows[i].damage_level.isna
                /\ df.rows[i].damage_level.v = Capitalize(df.rows[i].damage_level.v)
                /\ ("damage_level" \notin source.cols \/ source.rows[i].damage_level.isna)
                     => df.rows[i].damage_level = Val(UnknownText)

\* C4: after load_data every record has a non-null operator, and it is
\* "Unknown" where the source has no operator column or the cell is missing.
C4_OperatorNeverNull ==
    Loaded => \A i \in Rows(df) :
                /\ ~df.rows[i].operator.isna
                /\ ("operator" \notin source.cols \/ source.rows[i].operator.isna)
                     => df.rows[i].operator = Val("Unknown")

\* C5: in every filtered view whose records all have fatalities >= 0, the
\* seven bin counts sum to the number of records of the view.
C5_BinsSumToCount ==
    (Ok /\ \A i \in Rows(filtered) : filtered.rows[i].fatalities.v >= 0)
        => SumOver(fr_counts, DOMAIN fr_counts) = Len(filtered.rows)

\* The locations that have an entry in a cache file.
Cached(cache) == { e.location : e \in cache.entries }

\* The geocode button handler ran in the step.
HandlerRan == "success: geocoding finished" \in messages'

\* C6: a geocoding run looks up exactly the unique locations of the view that
\* have no entry in the cache yet, and none that has one.
C6_CachedNeverLookedUpAgain ==
    [][(HandlerRan /\ geopyInstalled)
         => lookups' = UniqueLocs(filtered') \ Cached(cacheFile)]_vars

\* The warning the user is to see when dates fail to parse.
DateWarning == "warning: unparseable dates"

\* A row of the source whose date is present and fails to parse.
DateFails(i) == ~source.rows[i].date.isna /\ ToDatetime(source.rows[i].date).isna

\* C7: when a row's date fails to parse, the run goes on with that row's date
\* and year unknown, and the user is shown a warning.
C7_DateFailureWarned ==
    (Loaded /\ \E i \in Rows(df) : DateFails(i))
        => /\ \A i \in Rows(df) : DateFails(i)
                  => df.rows[i].date.isna /\ df.rows[i].year.isna
           /\ DateWarning \in messages

\* The view's records are records of the Dataset, in the Dataset's order:
\* the index labels grow, and each record but for its derived fatal_range is
\* the Dataset's record with that label.
IsSubSequence(view, data) ==
    /\ \A i \in Rows(view) :
          /\ view.rows[i].row + 1 \in Rows(data)
          /\ [view.rows[i] EXCEPT !.fatal_range = Blank.fatal_range]
               = data.rows[view.rows[i].row + 1]
    /\ \A i, j \in Rows(view) : i < j => view.rows[i].row < view.rows[j].row

\* C8: a filter-selection change, with the recomputation it triggers, leaves
\* the loaded Dataset unchanged, and the filtered view it computes is a
\* sub-sequence of the Dataset's records in their original order.
C8_FilterLeavesDataset ==
    [][df' = df /\ IsSubSequence(filtered', df')]_vars

\* A filter change has produced a view that keeps some records, drops others
\* and carries the derived column the Dataset lacks.
C8_Witness ==
    /\ Ok
    /\ operator_sel # {}
    /\ Len(filtered.rows) >= 1
    /\ Len(filtered.rows) < Len(df.rows)
    /\ "fatal_range" \in filtered.cols
    /\ "fatal_range" \notin df.cols

\* The range of fatalities each label names; the last one has no upper end.
NamedRange == [l \in DOMAIN FrCounts(EmptyFrame) |->
    CASE l = "0"      -> <<0, 0>>
      [] l = "1-5"    -> <<1, 5>>
      [] l = "6-10"   -> <<6, 10>>
      [] l = "11-20"  -> <<11, 20>>
      [] l = "21-50"  -> <<21, 50>>
      [] l = "51-100" -> <<51, 100>>
      [] l = "100+"   -> <<101, -1>>]

InNamedRange(v, l) == /\ NamedRange[l][1] <= v
                      /\ (l = "100+" \/ v <= NamedRange[l][2])

\* C9: each record of the view is put in the bin whose label names the range
\* its fatalities lie in.
C9_BinMatchesLabel ==
    Ok => \A i \in Rows(filtered), l \in DOMAIN NamedRange :
            InNamedRange(filtered.rows[i].fatalities.v, l)
                => filtered.rows[i].fatal_range = Val(l)

\* C10: when geopy is absent, the geocode operation issues no lookup and
\* leaves the cache file with the entries it had.
C10_NoGeopyIsNoOp ==
    [][(HandlerRan /\ ~geopyInstalled)
         => lookups' = {} /\ Cached(cacheFile') = Cached(cacheFile)]_vars

====
